---- MODULE Spec2Model ----
(***************************************************************************)
(* Railway Journeys Dashboard (src/app.py): a Streamlit script that is run *)
(* top to bottom on every filter-change event.  One pass loads the cached  *)
(* dataset, applies the sidebar filters, computes five KPIs, shows them,   *)
(* and then computes and shows one projection per tab.                     *)
(*                                                                         *)
(* A table cell that may hold a string, a number or a missing value is a   *)
(* tagged record (Str, Num, NaN).  Categorical columns that are only ever  *)
(* compared hold plain strings, with NA for a missing value.               *)
(***************************************************************************)
EXTENDS Integers, Sequences, FiniteSets, TLC

VARIABLES
    scope,                \* which bounded input family this behaviour draws from
    cache,                \* the dataset st.cache_data holds after load_data()
    df,                   \* this run's df = load_data()
    date_range,           \* st.sidebar.date_input value: a tuple of 0, 1 or 2 dates
    selected_hours,
    selected_days,
    selected_departures,
    selected_arrivals,
    pc,                   \* position of the script run
    error,                \* the exception that ended the run, or "none"
    filtered_df,
    total_journeys,
    total_revenue,
    total_delayed,
    total_cancelled,
    total_refund,
    popular_routes,
    hour_counts,
    day_counts,
    monthly_counts,
    delayed_reasons,
    cancel_reasons,
    revenue_pivot,
    shown,                \* per output slot: "blank", "old" (an earlier pass) or "new"
    first                 \* history: criteria and results of the first completed pass

vars == <<scope, cache, df, date_range, selected_hours, selected_days,
          selected_departures, selected_arrivals, pc, error, filtered_df,
          total_journeys, total_revenue, total_delayed, total_cancelled,
          total_refund, popular_routes, hour_counts, day_counts,
          monthly_counts, delayed_reasons, cancel_reasons, revenue_pivot,
          shown, first>>

-----------------------------------------------------------------------------
(* Bounds and program constants *)

MaxRecords == 2

TopN == 10

Dates == 1 .. 3

-----------------------------------------------------------------------------
(* Cells *)

NA == "<NA>"

NaN == [kind |-> "nan"]

Num(n) == [kind |-> "num", num |-> n]

Str(s) == [kind |-> "str", str |-> s]

IsNaN(x) == x.kind = "nan"

Range(s) == {s[i] : i \in DOMAIN s}

RECURSIVE SumSeq(_)
SumSeq(s) == IF s = <<>> THEN 0 ELSE Head(s) + SumSeq(Tail(s))

NotNaN(x) == ~IsNaN(x)

Nums(s) == SelectSeq(s, NotNaN)

\* Series.sum() with min_count=1: an empty or all-missing column sums to NaN.
SumMinCount1(s) ==
    IF Nums(s) = <<>> THEN NaN
    ELSE Num(SumSeq([i \in DOMAIN Nums(s) |-> Nums(s)[i].num]))

\* Series.sum(skipna=False): one missing value makes the sum NaN.
SumNoSkip(s) ==
    IF \E i \in DOMAIN s : IsNaN(s[i]) THEN NaN
    ELSE Num(SumSeq([i \in DOMAIN s |-> s[i].num]))

\* Series.sum(): skipna=True, min_count=0.
SeriesSum(s) == Num(SumSeq([i \in DOMAIN Nums(s) |-> Nums(s)[i].num]))

Column(rows, f) == [i \in DOMAIN rows |-> rows[i][f]]

BoolNum(b) == Num(IF b THEN 1 ELSE 0)

-----------------------------------------------------------------------------
(* The dataset *)

DefaultRow ==
    [date |-> 1, hour |-> "9 AM", day |-> "Monday", month |-> "Jan",
     dep |-> "London", arr |-> "York", route |-> "London-York",
     price |-> 1, delayed |-> FALSE, cancelled |-> FALSE, reason |-> NA,
     refund |-> Str("No"), ttype |-> "Advance", tclass |-> "Standard"]

Rows(sc) ==
    CASE sc = "filter" ->
           {[DefaultRow EXCEPT !.date = d, ![c[1]] = c[2]] :
              d \in Dates,
              c \in {<<"hour", "9 AM">>, <<"hour", "10 AM">>,
                     <<"day", "Sunday">>, <<"dep", "Leeds">>, <<"arr", "Leeds">>}}
      [] sc = "kpi" ->
           {[DefaultRow EXCEPT !.refund = r, !.dep = a,
                               !.delayed = s[1], !.cancelled = s[2],
                               !.reason = s[3]] :
              r \in {Str("Yes"), Str("No"), Str("Maybe"), NaN},
              a \in {"London", "Leeds"},
              s \in {<<FALSE, FALSE, NA>>, <<TRUE, FALSE, "Signal Fault">>}}
      [] sc = "pivot" ->
           {[DefaultRow EXCEPT !.ttype = t, !.tclass = c, !.price = p] :
              t \in {"Advance", "Anytime", NA},
              c \in {"Standard", "First Class", NA}, p \in {1, 2}}
      [] sc = "peaks" ->
           {[DefaultRow EXCEPT !.hour = h, !.day = w, !.route = s[1],
                               !.cancelled = s[2], !.reason = s[3]] :
              h \in {"12 AM", "9 AM", "10 AM", "1 PM"},
              w \in {"Sunday", "Monday"},
              s \in {<<"London-York", FALSE, NA>>,
                     <<"Leeds-York", FALSE, NA>>,
                     <<"London-York", TRUE, "Weather">>}}

\* read_csv: the rows in file order, each with its index label.
Indexed(raw) == [i \in DOMAIN raw |-> [idx |-> i, row |-> raw[i]]]

Datasets(sc) ==
    UNION {{Indexed(raw) : raw \in [1 .. n -> Rows(sc)]} : n \in 0 .. MaxRecords}

\* Malformed or boundary date selections are exercised in the filter scope;
\* every scope has the full range and a half-made selection (one bound).
DateRanges(sc) ==
    IF sc = "filter"
    THEN {<<>>, <<2>>, <<1, 3>>, <<2, 2>>, <<2, 3>>, <<1, 2>>, <<3, 1>>}
    ELSE {<<1, 3>>, <<2>>}

All == {"All"}

Default == [hours |-> All, days |-> All, departures |-> All, arrivals |-> All]

Picks(v) == {{v}, {"All", v}, {}}

Selections(sc) ==
    CASE sc = "filter" ->
           {Default}
           \cup {[Default EXCEPT !.hours = s] : s \in Picks("9 AM")}
           \cup {[Default EXCEPT !.days = s] : s \in Picks("Monday")}
           \cup {[Default EXCEPT !.departures = s] : s \in Picks("London")}
           \cup {[Default EXCEPT !.arrivals = s] : s \in Picks("York")}
           \cup {[Default EXCEPT !.hours = {"9 AM"}, !.departures = {"London"}],
                 [Default EXCEPT !.days = {"Monday"}, !.arrivals = {"York"}]}
      [] sc = "kpi" ->
           {Default, [Default EXCEPT !.departures = {"London"}],
            [Default EXCEPT !.departures = {"Derby"}]}
      [] sc = "pivot" ->
           {Default, [Default EXCEPT !.departures = {"Derby"}]}
      [] sc = "peaks" ->
           {Default, [Default EXCEPT !.days = {"Monday", "Sunday"}],
            [Default EXCEPT !.hours = {}]}

-----------------------------------------------------------------------------
(* Apply Filters to Data, lines 56-74 *)

Truthy(t) == t # <<>>

InDates(r, dr) == r.row.date >= dr[1] /\ r.row.date <= dr[2]

\* boolean indexing keeps the rows whose mask is True, in their order.
RECURSIVE Keep(_, _)
Keep(rows, mask) ==
    IF rows = <<>> THEN <<>>
    ELSE (IF mask[1] THEN <<Head(rows)>> ELSE <<>>)
         \o Keep(Tail(rows), Tail(mask))

DateFilter(rows, dr) ==
    IF Truthy(dr)
    THEN Keep(rows, [i \in DOMAIN rows |-> InDates(rows[i], dr)])
    ELSE rows

\* the guard of lines 64, 67, 70, 73: "All" not in selected
Skips(selected) == "All" \in selected

isin(v, selected) == v \in selected

SetFilter(rows, f, selected) ==
    IF Skips(selected) THEN rows
    ELSE Keep(rows, [i \in DOMAIN rows |-> isin(rows[i].row[f], selected)])

\* lines 56-74 when no subscript fails
Filtered(rows, dr, hs, ds, deps, arrs) ==
    SetFilter(SetFilter(SetFilter(SetFilter(DateFilter(rows, dr),
        "hour", hs), "day", ds), "dep", deps), "arr", arrs)

\* date_range[1] on a one-element tuple raises IndexError (line 61)
SubscriptFails(dr) == Truthy(dr) /\ Len(dr) < 2

-----------------------------------------------------------------------------
(* KPIs at Top, lines 79-92 *)

\* Series.map({"Yes": 1, "No": 0}): a value that is not a key becomes NaN.
MapRefund(v) ==
    CASE v = Str("Yes") -> Num(1)
      [] v = Str("No") -> Num(0)
      [] OTHER -> NaN

RefundMapped(rows) ==
    [i \in DOMAIN rows |->
        [rows[i] EXCEPT !.row.refund = MapRefund(rows[i].row.refund)]]

\* a shared cached object: the in-place column assignment of line 83 reaches it
cache_resource(cached, written) ==
    [i \in DOMAIN cached |->
        IF \E j \in DOMAIN written : written[j].idx = cached[i].idx
        THEN [cached[i] EXCEPT !.row.refund =
                 (CHOOSE w \in Range(written) : w.idx = cached[i].idx).row.refund]
        ELSE cached[i]]

\* st.cache_data hands every run its own copy and line 56 copies it again: the
\* column assignment of line 83 never reaches the cached dataset.
cache_data(cached, written) == cached

load_data(cached) == cached

\* int(total_revenue), line 89: int(nan) raises ValueError
IntFails(x) == IsNaN(x)

-----------------------------------------------------------------------------
(* Ordering of labels *)

Chars(s) ==
    CASE s = "12 AM" -> <<49, 50, 32, 65, 77>>
      [] s = "9 AM" -> <<57, 32, 65, 77>>
      [] s = "10 AM" -> <<49, 48, 32, 65, 77>>
      [] s = "1 PM" -> <<49, 32, 80, 77>>
      [] s = "Jan" -> <<74, 97, 110>>

Min(a, b) == IF a < b THEN a ELSE b

\* Python's str comparison: by code point, a proper prefix first.
LexLess(a, b) ==
    \/ \E i \in 1 .. Min(Len(a), Len(b)) :
          /\ a[i] < b[i]
          /\ \A j \in 1 .. i - 1 : a[j] = b[j]
    \/ /\ Len(a) < Len(b)
       /\ \A j \in 1 .. Len(a) : a[j] = b[j]

\* the hour of day a label encodes (12 AM is 0, 12 PM is 12)
HourOf(s) ==
    CASE s = "12 AM" -> 0
      [] s = "9 AM" -> 9
      [] s = "10 AM" -> 10
      [] s = "1 PM" -> 13

StrLess(a, b) == LexLess(Chars(a), Chars(b))

\* the labels of S in ascending str order
Sorted(S) ==
    [i \in 1 .. Cardinality(S) |->
        CHOOSE x \in S : Cardinality({y \in S : StrLess(y, x)}) = i - 1]

-----------------------------------------------------------------------------
(* Projections, lines 108-207 *)

Count(col, v) == Cardinality({i \in DOMAIN col : col[i] = v})

Present(col) == Range(col) \ {NA}

\* Series.value_counts(): one entry per value that occurs, missing values
\* dropped, descending by count; the order among equal counts is not fixed.
value_counts(col) ==
    {[i \in DOMAIN s |-> <<s[i], Count(col, s[i])>>] :
        s \in {t \in [1 .. Cardinality(Present(col)) -> Present(col)] :
                 /\ \A i, j \in DOMAIN t : i # j => t[i] # t[j]
                 /\ \A i, j \in DOMAIN t :
                      i < j => Count(col, t[i]) >= Count(col, t[j])}}

head(s, n) == SubSeq(s, 1, Min(Len(s), n))

\* groupby(key).size(): groups sorted by key, missing keys dropped.
groupby_size(col) ==
    [i \in 1 .. Cardinality(Present(col)) |->
        <<Sorted(Present(col))[i], Count(col, Sorted(Present(col))[i])>>]

WeekDays ==
    <<"Sunday", "Monday", "Tuesday", "Wednesday", "Thursday", "Friday",
      "Saturday">>

\* Series.reindex(labels): a label the series lacks gets NaN.
reindex(col, labels) ==
    [i \in DOMAIN labels |->
        <<labels[i],
          IF labels[i] \in Present(col) THEN Num(Count(col, labels[i]))
          ELSE NaN>>]

Data(rows) == [i \in DOMAIN rows |-> rows[i].row]

WhereDelayed(rows) == SelectSeq(Data(rows), LAMBDA r : r.delayed = TRUE)

WhereCancelled(rows) == SelectSeq(Data(rows), LAMBDA r : r.cancelled = TRUE)

\* pivot_table groups by (Ticket Type, Ticket Class); a row whose key is
\* missing is in no group.
Keyed(rows) ==
    SelectSeq(Data(rows), LAMBDA r : r.ttype # NA /\ r.tclass # NA)

PairSum(rows, t, c) ==
    SumSeq(Column(SelectSeq(Keyed(rows),
                            LAMBDA r : r.ttype = t /\ r.tclass = c), "price"))

HasPair(rows, t, c) ==
    \E r \in Range(Keyed(rows)) : r.ttype = t /\ r.tclass = c

\* DataFrame.fillna(0) left out: an absent combination stays NaN.
nofill(x) == x

\* DataFrame.fillna(0)
fillna0(x) == IF IsNaN(x) THEN Num(0) ELSE x

\* pivot_table(index, columns, values, aggfunc="sum").fillna(0), lines 202-207
pivot_table(rows) ==
    [index |-> {r.ttype : r \in Range(Keyed(rows))},
     columns |-> {r.tclass : r \in Range(Keyed(rows))},
     cell |-> [p \in {r.ttype : r \in Range(Keyed(rows))}
                     \X {r.tclass : r \in Range(Keyed(rows))} |->
                 fillna0(IF HasPair(rows, p[1], p[2])
                         THEN Num(PairSum(rows, p[1], p[2]))
                         ELSE NaN)]]

-----------------------------------------------------------------------------
(* The script run *)

Slots ==
    {"kpis", "routes", "hours", "days", "months", "delays", "cancels",
     "revenue", "exception"}

EmptyPivot == [index |-> {}, columns |-> {}, cell |-> <<>>]

Stale(sh) == [x \in Slots |-> IF sh[x] = "blank" THEN "blank" ELSE "old"]

Show(sh, S) == [x \in Slots |-> IF x \in S THEN "new" ELSE sh[x]]

Init0(sc) ==
    /\ scope = sc
    /\ cache \in Datasets(sc)
    /\ df = <<>>
    /\ date_range = <<>>
    /\ selected_hours = All
    /\ selected_days = All
    /\ selected_departures = All
    /\ selected_arrivals = All
    /\ pc = "idle"
    /\ error = "none"
    /\ filtered_df = <<>>
    /\ total_journeys = 0
    /\ total_revenue = NaN
    /\ total_delayed = NaN
    /\ total_cancelled = NaN
    /\ total_refund = NaN
    /\ popular_routes = <<>>
    /\ hour_counts = <<>>
    /\ day_counts = <<>>
    /\ monthly_counts = <<>>
    /\ delayed_reasons = <<>>
    /\ cancel_reasons = <<>>
    /\ revenue_pivot = EmptyPivot
    /\ shown = [x \in Slots |-> "blank"]
    /\ first = <<>>

outputs ==
    <<total_journeys, total_revenue, total_delayed, total_cancelled,
      total_refund, popular_routes, hour_counts, day_counts, monthly_counts,
      delayed_reasons, cancel_reasons, revenue_pivot>>

widgets ==
    <<date_range, selected_hours, selected_days, selected_departures,
      selected_arrivals>>

\* A filter-change event: Streamlit reruns the script from the top with the
\* widgets' new values (lines 25-51); nothing of the previous run's
\* variables survives, what it displayed is still on the page.
Rerun ==
    /\ pc \in {"idle", "done", "failed"}
    /\ \E dr \in DateRanges(scope), sel \in Selections(scope) :
          /\ date_range' = dr
          /\ selected_hours' = sel.hours
          /\ selected_days' = sel.days
          /\ selected_departures' = sel.departures
          /\ selected_arrivals' = sel.arrivals
    /\ df' = load_data(cache)
    /\ pc' = "filter"
    /\ error' = "none"
    /\ filtered_df' = <<>>
    /\ total_journeys' = 0
    /\ total_revenue' = NaN
    /\ total_delayed' = NaN
    /\ total_cancelled' = NaN
    /\ total_refund' = NaN
    /\ popular_routes' = <<>>
    /\ hour_counts' = <<>>
    /\ day_counts' = <<>>
    /\ monthly_counts' = <<>>
    /\ delayed_reasons' = <<>>
    /\ cancel_reasons' = <<>>
    /\ revenue_pivot' = EmptyPivot
    /\ shown' = Stale(shown)
    /\ UNCHANGED <<scope, cache, first>>

\* lines 56-74
ApplyFilters ==
    /\ pc = "filter"
    /\ IF SubscriptFails(date_range)
       THEN /\ error' = "IndexError"
            /\ pc' = "failed"
            /\ shown' = Show(shown, {"exception"})
            /\ UNCHANGED filtered_df
       ELSE /\ filtered_df' = Filtered(df, date_range, selected_hours,
                                       selected_days, selected_departures,
                                       selected_arrivals)
            /\ pc' = "kpis"
            /\ UNCHANGED <<error, shown>>
    /\ UNCHANGED <<scope, cache, df, widgets, outputs, first>>

\* lines 79-84
ComputeKPIs ==
    /\ pc = "kpis"
    /\ total_journeys' = Len(filtered_df)
    /\ total_revenue' =
          SeriesSum([i \in DOMAIN filtered_df |-> Num(filtered_df[i].row.price)])
    /\ total_delayed' =
          SeriesSum([i \in DOMAIN filtered_df |-> BoolNum(filtered_df[i].row.delayed)])
    /\ total_cancelled' =
          SeriesSum([i \in DOMAIN filtered_df |-> BoolNum(filtered_df[i].row.cancelled)])
    /\ filtered_df' = RefundMapped(filtered_df)
    /\ total_refund' = SeriesSum(Column(Data(filtered_df'), "refund"))
    /\ cache' = cache_data(cache, filtered_df')
    /\ pc' = "metrics"
    /\ UNCHANGED <<scope, df, widgets, error, popular_routes, hour_counts,
                   day_counts, monthly_counts, delayed_reasons, cancel_reasons,
                   revenue_pivot, shown, first>>

\* lines 87-92
ShowKPIs ==
    /\ pc = "metrics"
    /\ IF IntFails(total_revenue)
       THEN /\ error' = "ValueError"
            /\ pc' = "failed"
            /\ shown' = Show(shown, {"exception"})
       ELSE /\ pc' = "tab0"
            /\ shown' = Show(shown, {"kpis"})
            /\ UNCHANGED error
    /\ UNCHANGED <<scope, cache, df, widgets, filtered_df, outputs, first>>

\* lines 108-121
PopularRoutes ==
    /\ pc = "tab0"
    /\ \E vc \in value_counts(Column(Data(filtered_df), "route")) :
          popular_routes' = head(vc, TopN)
    /\ shown' = Show(shown, {"routes"})
    /\ pc' = "tab1"
    /\ UNCHANGED <<scope, cache, df, widgets, error, filtered_df,
                   total_journeys, total_revenue, total_delayed,
                   total_cancelled, total_refund, hour_counts, day_counts,
                   monthly_counts, delayed_reasons, cancel_reasons,
                   revenue_pivot, first>>

\* lines 127-155
TravelPeaks ==
    /\ pc = "tab1"
    /\ hour_counts' = groupby_size(Column(Data(filtered_df), "hour"))
    /\ day_counts' = reindex(Column(Data(filtered_df), "day"), WeekDays)
    /\ monthly_counts' = groupby_size(Column(Data(filtered_df), "month"))
    /\ shown' = Show(shown, {"hours", "days", "months"})
    /\ pc' = "tab2"
    /\ UNCHANGED <<scope, cache, df, widgets, error, filtered_df,
                   total_journeys, total_revenue, total_delayed,
                   total_cancelled, total_refund, popular_routes,
                   delayed_reasons, cancel_reasons, revenue_pivot, first>>

\* lines 160-174
Delays ==
    /\ pc = "tab2"
    /\ \E vc \in value_counts(Column(WhereDelayed(filtered_df), "reason")) :
          delayed_reasons' = vc
    /\ shown' = Show(shown, {"delays"})
    /\ pc' = "tab3"
    /\ UNCHANGED <<scope, cache, df, widgets, error, filtered_df,
                   total_journeys, total_revenue, total_delayed,
                   total_cancelled, total_refund, popular_routes, hour_counts,
                   day_counts, monthly_counts, cancel_reasons, revenue_pivot,
                   first>>

\* lines 179-194
Cancellations ==
    /\ pc = "tab3"
    /\ \E vc \in value_counts(Column(WhereCancelled(filtered_df), "reason")) :
          cancel_reasons' = vc
    /\ shown' = Show(shown, {"cancels"})
    /\ pc' = "tab4"
    /\ UNCHANGED <<scope, cache, df, widgets, error, filtered_df,
                   total_journeys, total_revenue, total_delayed,
                   total_cancelled, total_refund, popular_routes, hour_counts,
                   day_counts, monthly_counts, delayed_reasons, revenue_pivot,
                   first>>

\* lines 200-220
RevenueOverview ==
    /\ pc = "tab4"
    /\ revenue_pivot' = pivot_table(filtered_df)
    /\ shown' = Show(shown, {"revenue"})
    /\ pc' = "done"
    /\ UNCHANGED <<scope, cache, df, widgets, error, filtered_df,
                   total_journeys, total_revenue, total_delayed,
                   total_cancelled, total_refund, popular_routes, hour_counts,
                   day_counts, monthly_counts, delayed_reasons, cancel_reasons,
                   first>>

Next ==
    \/ Rerun
    \/ ApplyFilters
    \/ ComputeKPIs
    \/ ShowKPIs
    \/ PopularRoutes
    \/ TravelPeaks
    \/ Delays
    \/ Cancellations
    \/ RevenueOverview

\* History only: keep the criteria and the results of one completed pass.
Remember ==
    /\ pc = "done"
    /\ first = <<>>
    /\ first' = <<[criteria |-> widgets,
                   subset |-> filtered_df,
                   kpis |-> <<total_journeys, total_revenue, total_delayed,
                              total_cancelled, total_refund>>]>>
    /\ UNCHANGED <<scope, cache, df, widgets, pc, error, filtered_df, outputs,
                   shown>>

NextIdem == Next \/ Remember

SpecFilter == Init0("filter") /\ [][Next]_vars

SpecKpi == Init0("kpi") /\ [][Next]_vars

SpecPivot == Init0("pivot") /\ [][Next]_vars

SpecPeaks == Init0("peaks") /\ [][Next]_vars

SpecIdem == Init0("kpi") /\ [][NextIdem]_vars

-----------------------------------------------------------------------------
(* Properties *)

AfterKPIs == pc \in {"metrics", "tab0", "tab1", "tab2", "tab3", "tab4", "done"}

AfterPeaks == pc \in {"tab2", "tab3", "tab4", "done"}

Results == Slots \ {"exception"}

Dims ==
    {<<"hour", selected_hours>>, <<"day", selected_days>>,
     <<"dep", selected_departures>>, <<"arr", selected_arrivals>>}

\* the subset the run's filter yields, before line 83 rewrites a column
RawSubset ==
    Filtered(df, date_range, selected_hours, selected_days,
             selected_departures, selected_arrivals)

RECURSIVE SumOver(_, _)
SumOver(S, f) ==
    IF S = {} THEN 0
    ELSE LET x == CHOOSE y \in S : TRUE
         IN f[x] + SumOver(S \ {x}, f)

\* a record satisfies every active predicate: the date range, and membership
\* for every dimension whose selection is not the sentinel set
Satisfies(r) ==
    /\ date_range[1] <= r.row.date
    /\ r.row.date <= date_range[2]
    /\ \A d \in Dims : d[2] # All => r.row[d[1]] \in d[2]

\* C1: with a two-bound date range, the filtered subset holds exactly the
\* records that satisfy every active predicate (date range, and membership
\* for every dimension whose selection is not the sentinel), in input order.
C1_FilterSoundAndComplete ==
    (pc = "kpis" /\ Len(date_range) = 2)
        => filtered_df = SelectSeq(df, Satisfies)

\* C2: a dimension is unrestricted exactly when its selection equals the
\* sentinel set {"All"}: with any other selection (also one that holds "All"
\* beside specific values, or the empty one) every record of the subset has
\* its field value in the selection, and with all four selections equal to
\* the sentinel no record is dropped by a categorical filter.
C2_SentinelIsLiteralAll ==
    pc = "kpis" =>
        /\ \A d \in Dims :
              d[2] # All =>
                  \A i \in DOMAIN filtered_df : filtered_df[i].row[d[1]] \in d[2]
        /\ (\A d \in Dims : d[2] = All) =>
              filtered_df = DateFilter(df, date_range)

Malformed(dr) == Len(dr) = 1 \/ (Len(dr) = 2 /\ dr[2] < dr[1])

\* C3: with a malformed date range (end before start, or one bound only) the
\* filter ends in a ValidationError, never in a subset or in another error,
\* and nothing new replaces what the previous pass left displayed.
C3_MalformedRangeIsValidationError ==
    (pc \notin {"idle", "filter"} /\ Malformed(date_range))
        => /\ error = "ValidationError"
           /\ \A x \in Results : shown[x] # "new"

\* C4: the day-of-week projection has the 7 weekdays Sunday..Saturday in
\* order, each with the number of records of the subset on that weekday,
\* the number 0 where there is none.
C4_DayCountsZeroFilled ==
    AfterPeaks =>
        day_counts =
            [i \in 1 .. 7 |->
                <<WeekDays[i],
                  Num(Cardinality({j \in DOMAIN filtered_df :
                                     filtered_df[j].row.day = WeekDays[i]}))>>]

\* C9: the hour projection lists the hour labels of the subset with their
\* counts in ascending order of the hour of day each label encodes.
C9_HoursChronological ==
    AfterPeaks =>
        /\ {hour_counts[i][1] : i \in DOMAIN hour_counts}
              = {filtered_df[j].row.hour : j \in DOMAIN filtered_df}
        /\ \A i, j \in DOMAIN hour_counts :
              i < j => HourOf(hour_counts[i][1]) < HourOf(hour_counts[j][1])

\* C10: nothing of a pass is displayed before the whole pass has completed,
\* and a pass that failed displays none of its results.
C10_NothingShownBeforePassEnds ==
    \A x \in Results : shown[x] = "new" => pc = "done"

kpis == <<total_journeys, total_revenue, total_delayed, total_cancelled,
          total_refund>>

YesRows == {i \in DOMAIN RawSubset : RawSubset[i].row.refund = Str("Yes")}

\* C6: totalRefundRequests is the number of records of the filtered subset
\* whose raw Refund Request value is "Yes"; "No", a missing value and an
\* unrecognised string add 0, and no such value ends the run in an error.
C6_RefundCountsYesOnly ==
    /\ AfterKPIs => total_refund = Num(Cardinality(YesRows))
    /\ pc = "failed" => SubscriptFails(date_range)

\* a shown refund count of 1 over a subset that holds "Yes" and "Maybe"
C6_Witness ==
    /\ pc = "tab0"
    /\ shown["kpis"] = "new"
    /\ total_refund = Num(1)
    /\ \E i \in DOMAIN RawSubset : RawSubset[i].row.refund = Str("Maybe")

\* the records of the subset that have both a ticket type and a ticket class
Both ==
    {i \in DOMAIN filtered_df :
        filtered_df[i].row.ttype # NA /\ filtered_df[i].row.tclass # NA}

PairRows(t, c) ==
    {i \in Both : filtered_df[i].row.ttype = t /\ filtered_df[i].row.tclass = c}

Prices == [i \in DOMAIN filtered_df |-> filtered_df[i].row.price]

\* every row has a value for every column, each cell is the sum of price over
\* the records of its pair (0 where there is none), and the cells add up to
\* the price of the records that have both values
PivotCells ==
    /\ DOMAIN revenue_pivot.cell = revenue_pivot.index \X revenue_pivot.columns
    /\ \A p \in DOMAIN revenue_pivot.cell :
          revenue_pivot.cell[p] = Num(SumOver(PairRows(p[1], p[2]), Prices))
    /\ SumOver(DOMAIN revenue_pivot.cell,
               [p \in DOMAIN revenue_pivot.cell |-> revenue_pivot.cell[p].num])
          = SumOver(Both, Prices)

\* C7 as stated: one row per distinct ticketType present in the subset and
\* one column per distinct ticketClass present in the subset.
C7_PivotRowPerTypePresent ==
    pc = "done" =>
        /\ revenue_pivot.index
              = {filtered_df[i].row.ttype : i \in DOMAIN filtered_df} \ {NA}
        /\ revenue_pivot.columns
              = {filtered_df[i].row.tclass : i \in DOMAIN filtered_df} \ {NA}
        /\ PivotCells

\* C7 amended: one row per distinct ticketType, and one column per distinct
\* ticketClass, occurring in a record that has both values; every row has a
\* value for every column, 0 where no record has the pair, each cell is the
\* sum of price over its pair, and the cells add up to the price of the
\* records that have both values.
C7_PivotOverKeyedRecords ==
    pc = "done" =>
        /\ revenue_pivot.index = {filtered_df[i].row.ttype : i \in Both}
        /\ revenue_pivot.columns = {filtered_df[i].row.tclass : i \in Both}
        /\ PivotCells

\* a two by two pivot with a combination no record has
C7_Witness ==
    /\ pc = "done"
    /\ Cardinality(revenue_pivot.index) = 2
    /\ Cardinality(revenue_pivot.columns) = 2
    /\ \E p \in DOMAIN revenue_pivot.cell :
          PairRows(p[1], p[2]) = {} /\ revenue_pivot.cell[p] = Num(0)

\* C8: a pass whose filter matches no record raises no error, its five KPIs
\* are 0 and shown, and its popular-routes, hour, month, delay-reasons,
\* cancellation-reasons and revenue-pivot projections are empty.
C8_EmptySubsetIsWellFormed ==
    (pc \notin {"idle", "filter"} /\ ~SubscriptFails(date_range)
        /\ filtered_df = <<>>)
        => /\ error = "none"
           /\ pc # "failed"
           /\ AfterKPIs => kpis = <<0, Num(0), Num(0), Num(0), Num(0)>>
           /\ pc = "done" =>
                 /\ shown["kpis"] = "new"
                 /\ popular_routes = <<>>
                 /\ hour_counts = <<>>
                 /\ monthly_counts = <<>>
                 /\ delayed_reasons = <<>>
                 /\ cancel_reasons = <<>>
                 /\ revenue_pivot.index = {}
                 /\ revenue_pivot.columns = {}
                 /\ DOMAIN revenue_pivot.cell = {}

\* a completed pass over a loaded dataset whose departure selection no
\* record has
C8_Witness ==
    /\ pc = "done"
    /\ df # <<>>
    /\ selected_departures = {"Derby"}
    /\ filtered_df = <<>>
    /\ total_journeys = 0

====
